---- MODULE Spec2Model ----
(***************************************************************************)
(* The persistence layer of mediapublic (server/mediapublic/models.py):    *)
(* the CRUD mixin (add, get_all, get_by_id, delete_by_id, update_by_id),   *)
(* Users.update_social_login and                                           *)
(* PlaylistAssignments.delete_by_playlist_id_and_recording_id and          *)
(* Playlists.remove_recording_ny_id, over the tables `users`,              *)
(* `playlist_assignments`, `playlists` and `recordings`.                   *)
(*                                                                         *)
(* A table is the set of its committed rows; a row is a function from the  *)
(* column names to values; every value is a string.  A Python Optional     *)
(* (a `thing` that may be None) is a set of at most one row: {} is None.   *)
(* The outcome of a call is [exc, ...]: exc = "none" on a normal return,   *)
(* otherwise the name of the exception that reaches the caller.            *)
(* Foreign keys are declared columns; the tables they refer to are not     *)
(* consulted when a row is written.                                        *)
(***************************************************************************)
EXTENDS Naturals, FiniteSets, Sequences, TLC

VARIABLES users,        \* committed rows of table `users`
          assignments,  \* committed rows of table `playlist_assignments`
          playlists,    \* committed rows of table `playlists`
          recordings,   \* committed rows of table `recordings`
          uuidNext,     \* number of uuid4() values drawn so far
          call,         \* the latest call of the sequential client
          ret,          \* its outcome
          pc,           \* concurrent clients: position inside the running call
          req,          \* concurrent clients: the call each one makes
          loc,          \* concurrent clients: locals (thing, values seen)
          out,          \* concurrent clients: outcome of the finished call
          base          \* concurrent run: the table when the calls started

vars == <<users, assignments, playlists, recordings, uuidNext, call, ret, pc, req, loc, out, base>>

----------------------------------------------------------------------------
(* Bounds of the model *)

\* rows a table may hold (guard of the inserting calls)
MaxRows == 2
\* uuid4() draws in one run
MaxUuid == 2

----------------------------------------------------------------------------
(* Values *)

\* Python None / SQL NULL
None == "<None>"

\* func.now(): the value a server_default stores; the clock is not modelled,
\* every reading of it is this one value
Now == "func.now()"

\* an attribute the insert left expired on the returned object (a column the
\* server filled): the object is detached by then, reading it raises
\* DetachedInstanceError
Expired == "<expired>"

\* uuid4(): the n-th draw; draws never repeat and never equal a supplied id
uuid4(n) == "uuid4-" \o ToString(n)

\* ids a caller supplies itself
GivenIds == {"id1"}

\* an id argument that is a string but no UUID: uuid.UUID(value) raises ValueError
BadUuidString == "not-a-uuid"
\* an id argument of a wrong type (5): binding raises an error that is no ValueError
BadUuidObject == "int:5"

Handles == {"h1", "h2"}

\* auth_info as the social login provider returns it
AuthInfo(n, x) ==
    [name |-> "name" \o n, photo |-> "photo" \o n,
     oauthAccessToken |-> "tok" \o n,
     oauthAccessTokenSecret |-> "sec" \o n, userid |-> x]

AuthInfos == {AuthInfo("1", "x1"), AuthInfo("2", "x1"), AuthInfo("2", "x2")}

----------------------------------------------------------------------------
(* Schema of Users *)

\* the columns of TimeStampMixin, which every mapped class gets
TimeStampColumns == {"creation_datetime", "modified_datetime"}

UsersColumns == {"id", "display_name", "email", "last_longin_datetime",
                 "signup_date", "twitter_handle",
                 "twitter_user_id", "twitter_auth_token",
                 "twitter_auth_secret", "profile_photo_url",
                 "user_type_id", "organization_id"} \cup TimeStampColumns

\* columns declared with server_default=func.now()
UsersServerDefault == {"last_longin_datetime", "signup_date"} \cup TimeStampColumns

\* nullable=False columns, and the primary key
UsersNotNull == {"id", "display_name", "email"}

\* unique=True columns
UsersUnique == {"twitter_handle", "twitter_user_id"}

\* names Python and the declarative base put into the __dict__ of a mapped class
MappedClassDict == {"__module__", "__doc__", "__init__", "__table__",
                    "__mapper__", "_sa_class_manager"}

\* set(Users.__dict__): the columns, the other names the class body binds,
\* and those of MappedClassDict
UsersDict ==
    UsersColumns \cup {"to_dict", "update_social_login", "__tablename__"}
    \cup MappedClassDict

\* names hasattr finds on every mapped class, with every interpreter: those
\* inherited from CreationMixin, from Base and from object, and those the
\* metaclass (type) supplies
InheritedAttrs ==
    {"add", "get_all", "get_by_id", "delete_by_id", "update_by_id", "reqkeys",
     "to_dict", "metadata", "_decl_class_registry",
     "__class__", "__delattr__", "__dict__", "__eq__", "__format__",
     "__ge__", "__getattribute__", "__gt__", "__hash__", "__le__", "__lt__",
     "__ne__", "__new__", "__reduce__", "__reduce_ex__", "__repr__",
     "__setattr__", "__sizeof__", "__str__", "__subclasshook__", "__weakref__",
     "__name__", "mro", "__mro__", "__base__", "__bases__", "__subclasses__",
     "__call__", "__basicsize__", "__dictoffset__", "__flags__", "__itemsize__",
     "__weakrefoffset__", "__instancecheck__", "__subclasscheck__"}

\* names hasattr finds on a mapped class with some interpreters only
\* (__dir__ not with Python 2.7, __qualname__ with 3.x, __init_subclass__
\* from 3.6, __getstate__ from 3.11, ...)
InterpreterAttrs ==
    {"__dir__", "__qualname__", "__prepare__", "__text_signature__",
     "__init_subclass__", "__annotations__", "__or__", "__ror__",
     "__getstate__", "__type_params__", "__firstlineno__",
     "__static_attributes__"}

\* names whose setattr on an instance raises TypeError: __class__ must be a
\* class, __dict__ a dictionary
SetattrTypeError == {"__class__", "__dict__"}

\* names whose setattr on an instance raises AttributeError (not writable)
SetattrAttributeError == {"__weakref__"}

\* the attributes that are relationships (Playlists.recordings and its backref
\* Recordings.playlists): setattr of a value that is no collection raises
\* TypeError, and every value of the model is a string
Relationships == {"recordings", "playlists"}

\* the names k with hasattr(Users, k) whatever the interpreter
UsersAttrs == UsersDict \cup InheritedAttrs

\* cls(**kwargs), the declarative constructor: for each keyword k in turn,
\* TypeError unless hasattr(cls, k), then setattr(self, k, kwargs[k]).  The
\* outcomes it can have: "none", or the exceptions it can raise; which of two
\* it raises depends on the order of the keywords, and whether a name of
\* InterpreterAttrs is refused on the interpreter
ConstructorRaises(kwargs, attrs) ==
    LET keys == DOMAIN kwargs
        refused == keys \ (attrs \cup InterpreterAttrs)
        maybe == (keys \cap InterpreterAttrs) \ attrs
        typeError == keys \cap attrs \cap (SetattrTypeError \cup Relationships)
        attrError == keys \cap attrs \cap SetattrAttributeError
    IN  (IF refused \cup maybe \cup typeError # {} THEN {"TypeError"} ELSE {})
        \cup (IF attrError # {} THEN {"AttributeError"} ELSE {})
        \cup (IF refused \cup typeError \cup attrError = {} THEN {"none"} ELSE {})

EmptyKwargs == [k \in {} |-> None]

Merge(f, g) ==
    [k \in (DOMAIN f) \cup (DOMAIN g) |-> IF k \in DOMAIN g THEN g[k] ELSE f[k]]

\* mutant of NewThing: the twitter_handle keyword is dropped
NewThingDropsHandle(columns, kwargs) ==
    [c \in columns |->
        IF c \in DOMAIN kwargs /\ c # "twitter_handle" THEN kwargs[c] ELSE None]

\* cls(**kwargs): attributes not supplied are None
NewThing(columns, kwargs) ==
    [c \in columns |-> IF c \in DOMAIN kwargs THEN kwargs[c] ELSE None]

\* the row the INSERT stores (v = Now), and the object as the flush leaves it
\* (v = Expired): the columns left out of the INSERT take their server default
ServerFilled(thing, filled, v) ==
    [c \in DOMAIN thing |-> IF c \in filled THEN v ELSE thing[c]]

----------------------------------------------------------------------------
(* What the database enforces when a transaction commits *)

PrimaryKeyOk(t) == \A r1 \in t, r2 \in t : r1.id = r2.id => r1 = r2

NotNullOk(t, notnull) == \A r \in t, c \in notnull : r[c] # None

\* mutant of UniqueOk: twitter_user_id is not declared unique
UniqueOkHandleOnly(t, unique) ==
    \A r1 \in t, r2 \in t, c \in unique \ {"twitter_user_id"} :
        (r1 # r2 /\ r1[c] # None) => r1[c] # r2[c]

\* SQL UNIQUE: NULLs never collide
UniqueOk(t, unique) ==
    \A r1 \in t, r2 \in t, c \in unique :
        (r1 # r2 /\ r1[c] # None) => r1[c] # r2[c]

ConstraintsOk(t, notnull, unique) ==
    /\ PrimaryKeyOk(t)
    /\ NotNullOk(t, notnull)
    /\ UniqueOk(t, unique)

\* INSERT of one row, committed or rolled back
InsertTxn(t, thing, notnull, unique) ==
    IF /\ \A r \in t : r.id # thing.id
       /\ ConstraintsOk(t \cup {thing}, notnull, unique)
    THEN [exc |-> "none", table |-> t \cup {thing}]
    ELSE [exc |-> "IntegrityError", table |-> t]

\* mutant of QueryById: the SELECT has no WHERE clause
QueryByIdNoFilter(t, id) ==
    IF id = BadUuidString THEN [exc |-> "StatementError(ValueError)", thing |-> {}]
    ELSE IF id = BadUuidObject
         THEN [exc |-> "StatementError(AttributeError)", thing |-> {}]
         ELSE [exc |-> "none",
               thing |-> IF t = {} THEN {} ELSE {CHOOSE r \in t : TRUE}]

\* SELECT ... WHERE id = :id LIMIT 1, with the bind processing of UUIDType
QueryById(t, id) ==
    IF id = BadUuidString THEN [exc |-> "StatementError(ValueError)", thing |-> {}]
    ELSE IF id = BadUuidObject
         THEN [exc |-> "StatementError(AttributeError)", thing |-> {}]
         ELSE [exc |-> "none", thing |-> {r \in t : r.id = id}]

\* the columns of `thing` that setattr really changed
Changed(old, new) == {c \in DOMAIN old : old[c] # new[c]}

\* mutant of UpdateTxn: the UPDATE has no WHERE clause
UpdateTxnNoWhere(t, old, new, notnull, unique) ==
    LET cols == Changed(old, new)
        upd(r) == [c \in DOMAIN r |-> IF c \in cols THEN new[c] ELSE r[c]]
        t2 == {upd(r) : r \in t}
    IN  IF cols = {} THEN [exc |-> "none", table |-> t]
        ELSE IF /\ Cardinality(t2) = Cardinality(t)
                /\ ConstraintsOk(t2, notnull, unique)
             THEN [exc |-> "none", table |-> t2]
             ELSE [exc |-> "IntegrityError", table |-> t]

\* flush of a modified instance: UPDATE SET <changed> WHERE id = <loaded id>
UpdateTxn(t, old, new, notnull, unique) ==
    LET cols == Changed(old, new)
        hit == {r \in t : r.id = old.id}
        upd(r) == [c \in DOMAIN r |-> IF c \in cols THEN new[c] ELSE r[c]]
        t2 == (t \ hit) \cup {upd(r) : r \in hit}
    IN  IF cols = {} THEN [exc |-> "none", table |-> t]
        ELSE IF hit = {} THEN [exc |-> "StaleDataError", table |-> t]
        ELSE IF /\ Cardinality(t2) = Cardinality(t)
                /\ ConstraintsOk(t2, notnull, unique)
             THEN [exc |-> "none", table |-> t2]
             ELSE [exc |-> "IntegrityError", table |-> t]

\* mutant of DeleteTxn: the DELETE has no WHERE clause
DeleteTxnNoWhere(t, thing) == {}

\* flush of a deleted instance: DELETE WHERE id = <loaded id>
DeleteTxn(t, thing) == {r \in t : r.id # thing.id}

----------------------------------------------------------------------------
(* CreationMixin, as functions of the table: each yields the table after   *)
(* the call, the uuid4 draws used, and the outcome the caller sees.        *)

Raise(t, n, e) == [table |-> t, uuid |-> n, ret |-> [exc |-> e, thing |-> {}]]

\* CreationMixin.add; raised is the outcome of the constructor (one of
\* ConstructorRaises), defaults the columns with a server default: the INSERT
\* leaves out those whose value is None
add(t, n, kwargs, raised, columns, defaults, notnull, unique) ==
    IF raised # "none" THEN Raise(t, n, raised)
    ELSE LET made == NewThing(columns, kwargs)
             n2 == IF made.id = None THEN n + 1 ELSE n
             thing == IF made.id = None
                      THEN [made EXCEPT !["id"] = uuid4(n2)] ELSE made
             filled == {c \in defaults : thing[c] = None}
             ins == InsertTxn(t, ServerFilled(thing, filled, Now), notnull, unique)
         IN  IF ins.exc = "none"
             THEN [table |-> ins.table, uuid |-> n2,
                   ret |-> [exc |-> "none",
                            thing |-> {ServerFilled(thing, filled, Expired)}]]
             ELSE Raise(t, n2, ins.exc)

\* CreationMixin.get_all
get_all(t) == [exc |-> "none", things |-> t]

\* the module imports six and uuid4, and never sys
SysImported == FALSE

\* six.reraise(*sys.exc_info()): the name sys is looked up first
Reraise(e) == IF SysImported THEN e ELSE "NameError"

\* CreationMixin.get_by_id
get_by_id(t, id) ==
    LET q == QueryById(t, id)
    IN  IF q.exc = "none" THEN [exc |-> "none", thing |-> q.thing]
        ELSE IF q.exc = "StatementError(ValueError)"
             THEN [exc |-> "ValueError", thing |-> {}]
             ELSE [exc |-> Reraise(q.exc), thing |-> {}]

\* the for loop of update_by_id: setattr for the keys found in set(cls.__dict__)
SetAttrs(thing, kwargs, dict) ==
    [c \in DOMAIN thing |->
        IF c \in DOMAIN kwargs /\ c \in dict THEN kwargs[c] ELSE thing[c]]

\* CreationMixin.delete_by_id
delete_by_id(t, n, id) ==
    LET got == get_by_id(t, id)
    IN  IF got.exc # "none" THEN Raise(t, n, got.exc)
        ELSE IF got.thing = {}
             THEN [table |-> t, uuid |-> n, ret |-> [exc |-> "none", thing |-> {}]]
             ELSE LET thing == CHOOSE r \in got.thing : TRUE
                  IN  [table |-> DeleteTxn(t, thing), uuid |-> n,
                       ret |-> [exc |-> "none", thing |-> {thing}]]

\* CreationMixin.update_by_id
update_by_id(t, n, id, kwargs, dict, notnull, unique) ==
    LET got == get_by_id(t, id)
    IN  IF got.exc # "none" THEN Raise(t, n, got.exc)
        ELSE IF got.thing = {}
             THEN [table |-> t, uuid |-> n, ret |-> [exc |-> "none", thing |-> {}]]
             ELSE IF (DOMAIN kwargs) \cap dict \cap Relationships # {}
                  THEN Raise(t, n, "TypeError")
                  ELSE LET old == CHOOSE r \in got.thing : TRUE
                           thing == SetAttrs(old, kwargs, dict)
                           upd == UpdateTxn(t, old, thing, notnull, unique)
                       IN  IF upd.exc = "none"
                           THEN [table |-> upd.table, uuid |-> n,
                                 ret |-> [exc |-> "none", thing |-> {thing}]]
                           ELSE Raise(t, n, upd.exc)

----------------------------------------------------------------------------
(* Users.update_social_login *)

\* the keyword arguments of the Users.add call
SocialKwargs(social_uname, auth_info) ==
    [email |-> social_uname \o "@twitter.social.auth",
     display_name |-> auth_info.name,
     twitter_handle |-> social_uname,
     profile_photo_url |-> auth_info.photo,
     twitter_auth_secret |-> auth_info.oauthAccessTokenSecret,
     twitter_auth_token |-> auth_info.oauthAccessToken,
     twitter_user_id |-> auth_info.userid]

\* mutant of SocialValues: twitter_user_id is left out of the UPDATE
SocialValuesNoUserId(auth_info) ==
    [twitter_auth_secret |-> auth_info.oauthAccessTokenSecret,
     twitter_auth_token |-> auth_info.oauthAccessToken]

\* the values of the bulk UPDATE in the except branch
SocialValues(auth_info) ==
    [twitter_auth_secret |-> auth_info.oauthAccessTokenSecret,
     twitter_auth_token |-> auth_info.oauthAccessToken,
     twitter_user_id |-> auth_info.userid]

\* the except branch: UPDATE ... WHERE twitter_handle = :h, then the refetch,
\* in one transaction; user.id is read after it
SocialFallback(t, social_uname, auth_info) ==
    LET values == SocialValues(auth_info)
        hit == {r \in t : r.twitter_handle = social_uname}
        upd(r) == [c \in DOMAIN r |-> IF c \in DOMAIN values THEN values[c] ELSE r[c]]
        t2 == (t \ hit) \cup {upd(r) : r \in hit}
        found == {r \in t2 : r.twitter_handle = social_uname}
    IN  IF ~(Cardinality(t2) = Cardinality(t)
             /\ ConstraintsOk(t2, UsersNotNull, UsersUnique))
        THEN [table |-> t, ret |-> [exc |-> "IntegrityError", flag |-> TRUE, id |-> None]]
        ELSE IF found = {}
             THEN [table |-> t2,
                   ret |-> [exc |-> "AttributeError", flag |-> TRUE, id |-> None]]
             ELSE [table |-> t2,
                   ret |-> [exc |-> "none", flag |-> TRUE,
                            id |-> (CHOOSE r \in found : TRUE).id]]

\* Users.update_social_login
update_social_login(t, n, social_uname, auth_info) ==
    LET kwargs == SocialKwargs(social_uname, auth_info)
        a == add(t, n, kwargs,
                 CHOOSE raised \in ConstructorRaises(kwargs, UsersAttrs) : TRUE,
                 UsersColumns, UsersServerDefault, UsersNotNull, UsersUnique)
    IN  IF a.ret.exc = "none"
        THEN [table |-> a.table, uuid |-> a.uuid,
              ret |-> [exc |-> "none", flag |-> FALSE,
                       id |-> (CHOOSE r \in a.ret.thing : TRUE).id]]
        ELSE IF a.ret.exc = "IntegrityError"
             THEN LET f == SocialFallback(t, social_uname, auth_info)
                  IN  [table |-> f.table, uuid |-> a.uuid, ret |-> f.ret]
             ELSE [table |-> t, uuid |-> a.uuid,
                   ret |-> [exc |-> a.ret.exc, flag |-> FALSE, id |-> None]]

----------------------------------------------------------------------------
(* PlaylistAssignments *)

AssignmentsColumns == {"id", "playlist_id", "recording_id"} \cup TimeStampColumns

AssignmentsNotNull == {"id", "recording_id"}

AssignmentsUnique == {}

AssignmentsDict ==
    AssignmentsColumns
    \cup {"to_dict", "delete_by_playlist_id_and_recording_id", "__tablename__"}
    \cup MappedClassDict

AssignmentsAttrs == AssignmentsDict \cup InheritedAttrs

\* the stored assignments of playlist pid and recording rid
Assigned(t, pid, rid) == {r \in t : r.playlist_id = pid /\ r.recording_id = rid}

\* what .first() may return for a query that selects `found`: None, or any one
\* of the rows (the query has no ORDER BY)
First(found) == IF found = {} THEN {{}} ELSE {{r} : r \in found}

\* DBSession is a scoped_session: its remove() takes no argument, so the call
\* DBSession.remove(playlist) raises TypeError before anything is deleted
SessionRemove(t, thing) == [exc |-> "TypeError", table |-> t]

\* PlaylistAssignments.delete_by_playlist_id_and_recording_id
delete_by_playlist_id_and_recording_id(t, pid, rid) ==
    LET found == Assigned(t, pid, rid)
    IN  IF found = {}
        THEN [table |-> t, ret |-> [exc |-> "none", success |-> FALSE]]
        ELSE LET playlist == CHOOSE r \in found : TRUE
                 rem == SessionRemove(t, playlist)
             IN  IF rem.exc = "none"
                 THEN [table |-> rem.table, ret |-> [exc |-> "none", success |-> TRUE]]
                 ELSE [table |-> t, ret |-> [exc |-> rem.exc, success |-> FALSE]]

----------------------------------------------------------------------------
(* Playlists and Recordings *)

PlaylistsColumns == {"id", "author_id", "title", "description"} \cup TimeStampColumns

PlaylistsNotNull == {"id", "title", "description"}

\* set(Playlists.__dict__)
PlaylistsDict ==
    PlaylistsColumns
    \cup {"recordings", "get_by_owner_id", "remove_recording_ny_id",
          "get_recordings_by_playlist_id", "to_dict", "__tablename__"}
    \cup MappedClassDict

PlaylistsAttrs == PlaylistsDict \cup InheritedAttrs

RecordingsColumns ==
    {"id", "title", "url", "recorded_datetime", "organization_id"}
    \cup TimeStampColumns

RecordingsNotNull == {"id", "title", "url"}

\* whether the mappers of the process are configured: the first query or the
\* first construction of a mapped object configures them
MappersConfigured == BOOLEAN

\* set(Recordings.__dict__); `playlists`, the backref of Playlists.recordings,
\* is put on the class when the mappers are configured
RecordingsDict(configured) ==
    RecordingsColumns
    \cup {"get_by_organization_id", "to_dict", "__tablename__"}
    \cup (IF configured THEN {"playlists"} ELSE {})
    \cup MappedClassDict

\* hasattr(Recordings, k) in the constructor, which runs with the mappers
\* configured
RecordingsAttrs == RecordingsDict(TRUE) \cup InheritedAttrs

\* a query filtered by column == id, .all(): get_by_owner_id (author_id),
\* get_by_organization_id (organization_id); id None compares as IS NULL; an
\* id that cannot be bound raises StatementError, which nothing catches
FilterAll(t, column, id) ==
    IF id \in {BadUuidString, BadUuidObject}
    THEN [exc |-> "StatementError", things |-> {}]
    ELSE [exc |-> "none", things |-> {r \in t : r[column] = id}]

\* Playlists.get_by_owner_id
get_by_owner_id(t, id) == FilterAll(t, "author_id", id)

\* Recordings.get_by_organization_id
get_by_organization_id(t, id) == FilterAll(t, "organization_id", id)

\* Playlists.get_recordings_by_playlist_id: the recordings joined with the
\* assignments on recording_id, for the assignments of playlist id
get_recordings_by_playlist_id(rc, a, id) ==
    IF id \in {BadUuidString, BadUuidObject}
    THEN [exc |-> "StatementError", things |-> {}]
    ELSE [exc |-> "none",
          things |-> {r \in rc : \E x \in a : x.recording_id = r.id
                                               /\ x.playlist_id = id}]

\* Playlists.remove_recording_ny_id, `assignment` being what .first() returned:
\* DBSession.delete(None) raises UnmappedInstanceError, DBSession.delete of the
\* row is flushed and committed on leaving the block; nothing is returned
remove_recording_ny_id(t, assignment) ==
    IF assignment = {}
    THEN [table |-> t, ret |-> [exc |-> "UnmappedInstanceError"]]
    ELSE [table |-> t \ assignment, ret |-> [exc |-> "none"]]

\* whether the database driver reports the rows a DELETE matched (the
\* dialect's supports_sane_multi_rowcount): it does with SQLite and MySQL,
\* not with psycopg2
SaneMultiRowcount == BOOLEAN

\* Playlists.recordings / Recordings.playlists, relationship(secondary=
\* PlaylistAssignments.__table__): the flush that deletes `thing` loads the
\* collection (the rows of `others` joined through the assignments whose
\* column `own` holds thing.id, each member once), and issues for each member
\* one DELETE of the assignments of that pair; where the driver reports the
\* rows matched, a count other than the number of members raises
\* StaleDataError
DeleteSecondary(a, thing, own, other, others, sane) ==
    LET linked == {r \in a : r[own] = thing.id /\ r[other] \in {o.id : o \in others}}
        members == {r[other] : r \in linked}
    IN  IF sane /\ Cardinality(linked) # Cardinality(members)
        THEN [exc |-> "StaleDataError", table |-> a]
        ELSE [exc |-> "none", table |-> a \ linked]

\* CreationMixin.delete_by_id on Playlists (own = playlist_id) and on
\* Recordings (own = recording_id): t is the table of the class, a the
\* assignments, others the table at the other end of the relationship
delete_by_id_secondary(t, a, n, id, own, other, others, sane) ==
    LET got == get_by_id(t, id)
    IN  IF got.exc # "none"
        THEN [table |-> t, assignments |-> a, uuid |-> n,
              ret |-> [exc |-> got.exc, thing |-> {}]]
        ELSE IF got.thing = {}
             THEN [table |-> t, assignments |-> a, uuid |-> n,
                   ret |-> [exc |-> "none", thing |-> {}]]
             ELSE LET thing == CHOOSE r \in got.thing : TRUE
                      sec == DeleteSecondary(a, thing, own, other, others, sane)
                  IN  IF sec.exc = "none"
                      THEN [table |-> DeleteTxn(t, thing), assignments |-> sec.table,
                            uuid |-> n, ret |-> [exc |-> "none", thing |-> {thing}]]
                      ELSE [table |-> t, assignments |-> a, uuid |-> n,
                            ret |-> [exc |-> sec.exc, thing |-> {}]]

----------------------------------------------------------------------------
(* The inputs the calls are made with *)

\* {} or one keyword argument `key` with a value of `choices`
Opt(key, choices) == {EmptyKwargs} \cup {[k \in {key} |-> v] : v \in choices}

\* keyword arguments of Users.add: with the required columns and optionally an
\* id, a handle, a twitter user id; without display_name; with a keyword the
\* class does not have; with a column that has a server default, as a value
\* and as None; with a name the class inherits; with names the constructor
\* cannot set or that only some interpreters know
AddInputs ==
    {Merge(Merge(Merge([email |-> "e1", display_name |-> "d1"], i), h), x) :
        i \in Opt("id", GivenIds), h \in Opt("twitter_handle", {"h1"}),
        x \in Opt("twitter_user_id", {"x1"})}
    \cup {[email |-> "e1"],
          [email |-> "e1", display_name |-> "d1", nickname |-> "nick"],
          [email |-> "e1", display_name |-> "d1", signup_date |-> "2015-01-01"],
          [email |-> "e1", display_name |-> "d1", reqkeys |-> "x"],
          [email |-> "e1", display_name |-> "d1", signup_date |-> None],
          [email |-> "e1", display_name |-> "d1", id |-> None],
          [email |-> "e1", display_name |-> "d1", __init_subclass__ |-> "x"],
          [email |-> "e1", display_name |-> "d1", __weakref__ |-> "x",
           nickname |-> "nick"]}

\* keyword arguments of Users.update_by_id; the name id is the parameter of
\* the method and never a key of kwargs
UpdateInputs ==
    {[twitter_handle |-> "h1", nickname |-> "nick", signup_date |-> "2015-01-01"],
     [display_name |-> None], [twitter_user_id |-> "x1"]}

\* id arguments that are UUIDs: supplied and generated ids, stored or not
IdInputs == GivenIds \cup {uuid4(k) : k \in 1..MaxUuid}

\* id arguments that are no UUIDs
BadIdInputs == {BadUuidString, BadUuidObject}

NoAuth == [name |-> None, photo |-> None, oauthAccessToken |-> None,
           oauthAccessTokenSecret |-> None, userid |-> None]

Call(op, id, kwargs, social_uname, auth_info) ==
    [op |-> op, id |-> id, kwargs |-> kwargs,
     social_uname |-> social_uname, auth_info |-> auth_info]

NoCall == Call("none", None, EmptyKwargs, None, NoAuth)

Clients == {"c1", "c2"}

\* locals of a concurrent client: the `thing` its lookup returned, and for the
\* record the table as its first transaction left it and whether its second
\* transaction found another table
NoLoc == [thing |-> {}, seen |-> {}, raced |-> FALSE]

----------------------------------------------------------------------------
(* The sequential client: one call at a time, each call one step *)

Init ==
    /\ users = {}
    /\ assignments = {}
    /\ playlists = {}
    /\ recordings = {}
    /\ uuidNext = 0
    /\ call = NoCall
    /\ ret = [exc |-> "none"]
    /\ pc = [c \in Clients |-> "off"]
    /\ req = [c \in Clients |-> NoCall]
    /\ loc = [c \in Clients |-> NoLoc]
    /\ out = [c \in Clients |-> [exc |-> "none"]]
    /\ base = [table |-> {}, uuid |-> 0]

\* the call leaves the Users table and the outcome as r says
Done(op, id, kwargs, social_uname, auth_info, r) ==
    /\ Cardinality(r.table) <= MaxRows
    /\ r.uuid <= MaxUuid
    /\ users' = r.table
    /\ uuidNext' = r.uuid
    /\ call' = Call(op, id, kwargs, social_uname, auth_info)
    /\ ret' = r.ret
    /\ UNCHANGED <<assignments, playlists, recordings, pc, req, loc, out, base>>

Add ==
    \E kwargs \in AddInputs :
        \E raised \in ConstructorRaises(kwargs, UsersAttrs) :
            Done("add", None, kwargs, None, NoAuth,
                 add(users, uuidNext, kwargs, raised,
                     UsersColumns, UsersServerDefault, UsersNotNull, UsersUnique))

GetAll ==
    Done("get_all", None, EmptyKwargs, None, NoAuth,
         [table |-> users, uuid |-> uuidNext, ret |-> get_all(users)])

GetById ==
    \E id \in IdInputs \cup BadIdInputs :
        Done("get_by_id", id, EmptyKwargs, None, NoAuth,
             [table |-> users, uuid |-> uuidNext, ret |-> get_by_id(users, id)])

DeleteById ==
    \E id \in IdInputs \cup BadIdInputs :
        Done("delete_by_id", id, EmptyKwargs, None, NoAuth,
             delete_by_id(users, uuidNext, id))

UpdateById ==
    \E id \in IdInputs \cup BadIdInputs, kwargs \in UpdateInputs :
        Done("update_by_id", id, kwargs, None, NoAuth,
             update_by_id(users, uuidNext, id, kwargs,
                          UsersDict, UsersNotNull, UsersUnique))

UpdateSocialLogin ==
    \E social_uname \in Handles, auth_info \in AuthInfos :
        Done("update_social_login", None, EmptyKwargs, social_uname, auth_info,
             update_social_login(users, uuidNext, social_uname, auth_info))

Next ==
    \/ Add
    \/ GetAll
    \/ GetById
    \/ DeleteById
    \/ UpdateById
    \/ UpdateSocialLogin

Spec == Init /\ [][Next]_vars

----------------------------------------------------------------------------
(* Properties of the sequential client on users *)

\* the record a call returned
TheThing(things) == CHOOSE r \in things : TRUE

Ids(t) == {r.id : r \in t}

IsAdd(c) == c.op = "add"
IsGet(c) == c.op = "get_by_id"
IsUpdate(c) == c.op = "update_by_id"
IsDelete(c) == c.op = "delete_by_id"
IsSocial(c) == c.op = "update_social_login"

\* C1 as stated: add(**fields) followed by get_by_id(id of the returned
\* record) returns a record with that id and with every supplied field (a
\* keyword that names a column of the record type) equal to the value supplied.
C1_AsStated ==
    [][ (IsAdd(call) /\ ret.exc = "none" /\ IsGet(call')
         /\ call'.id = TheThing(ret.thing).id)
        => /\ ret'.exc = "none"
           /\ Cardinality(ret'.thing) = 1
           /\ TheThing(ret'.thing).id = TheThing(ret.thing).id
           /\ \A k \in (DOMAIN call.kwargs) \cap UsersColumns :
                 TheThing(ret'.thing)[k] = call.kwargs[k]
      ]_vars

\* C1 amended: add(**fields) followed by get_by_id(id of the returned record)
\* returns a record with that id and with every supplied field as supplied,
\* except that a field supplied as None reads back as the server default when
\* its column has one (and an id supplied as None as the id add assigned);
\* and when no id is supplied, the id add assigns is the id of no row stored
\* before.
C1_AddThenGetById ==
    [][ /\ (IsAdd(call) /\ ret.exc = "none" /\ IsGet(call')
            /\ call'.id = TheThing(ret.thing).id)
           => /\ ret'.exc = "none"
              /\ Cardinality(ret'.thing) = 1
              /\ TheThing(ret'.thing).id = TheThing(ret.thing).id
              /\ \A k \in (DOMAIN call.kwargs) \cap UsersColumns :
                    IF call.kwargs[k] = None /\ k \in UsersServerDefault
                    THEN TheThing(ret'.thing)[k] = Now
                    ELSE IF call.kwargs[k] = None /\ k = "id"
                         THEN TheThing(ret'.thing)[k] # None
                         ELSE TheThing(ret'.thing)[k] = call.kwargs[k]
        /\ (IsAdd(call') /\ ret'.exc = "none" /\ "id" \notin DOMAIN call'.kwargs)
           => TheThing(ret'.thing).id \notin Ids(users)
      ]_vars

\* C1 witness: get_by_id returned a row that add stored under an id it drew
\* itself, with the handle the caller supplied.
C1_Witness ==
    /\ IsGet(call)
    /\ ret.exc = "none"
    /\ \E r \in ret.thing : r.id = uuid4(2) /\ r.twitter_handle = "h1" /\ r.email = "e1"
    /\ Cardinality(users) = 2

\* the row a successful update_by_id(id, **kwargs) leaves in place of old
Overwritten(old, kwargs) ==
    [c \in DOMAIN old |->
        IF c \in DOMAIN kwargs /\ c \in UsersDict THEN kwargs[c] ELSE old[c]]

C3_DeleteRemovesRow ==
    [][ /\ (IsDelete(call') /\ call'.id \in Ids(users))
           => LET old == CHOOSE r \in users : r.id = call'.id
              IN  /\ ret'.exc = "none"
                  /\ ret'.thing = {old}
                  /\ users' = users \ {old}
                  /\ call'.id \notin Ids(users')
        /\ (IsDelete(call) /\ ret.exc = "none" /\ ret.thing # {} /\ IsGet(call')
            /\ call'.id = call.id)
           => (ret'.exc = "none" /\ ret'.thing = {})
        /\ (IsDelete(call) /\ ret.exc = "none" /\ ret.thing # {}
            /\ call'.op = "get_all")
           => (ret'.exc = "none" /\ ret.thing \cap ret'.things = {})
      ]_vars

\* C3 witness: a row was deleted and returned while another row stays stored.
C3_Witness ==
    /\ IsDelete(call)
    /\ ret.exc = "none"
    /\ ret.thing # {}
    /\ ret.thing \cap users = {}
    /\ users # {}

\* the row the first update_social_login(h, a) inserts under the id it returns
SocialRow(id, h, a) ==
    LET given == [id |-> id, display_name |-> a.name,
                  email |-> h \o "@twitter.social.auth",
                  twitter_handle |-> h, twitter_user_id |-> a.userid,
                  twitter_auth_token |-> a.oauthAccessToken,
                  twitter_auth_secret |-> a.oauthAccessTokenSecret,
                  profile_photo_url |-> a.photo]
    IN  [c \in UsersColumns |->
            IF c \in DOMAIN given THEN given[c]
            ELSE IF c \in UsersServerDefault THEN Now ELSE None]

\* the first call: one row inserted, (False, id) returned
FirstLogin ==
    /\ ret'.exc = "none"
    /\ ret'.flag = FALSE
    /\ ret'.id \notin Ids(users)
    /\ users' = users \cup {SocialRow(ret'.id, call'.social_uname, call'.auth_info)}

\* the second call: no row inserted, (True, same id), credentials overwritten
SecondLogin ==
    LET old == CHOOSE r \in users : r.id = ret.id
        a2 == call'.auth_info
    IN  /\ ret'.exc = "none"
        /\ ret'.flag = TRUE
        /\ ret'.id = ret.id
        /\ users' = (users \ {old}) \cup
                    {[old EXCEPT !["twitter_auth_token"] = a2.oauthAccessToken,
                                 !["twitter_auth_secret"] = a2.oauthAccessTokenSecret,
                                 !["twitter_user_id"] = a2.userid]}

HandleStored(t, h) == \E r \in t : r.twitter_handle = h

\* a row with another handle than h holds the twitter_user_id x
UserIdTaken(t, h, x) == \E r \in t : r.twitter_user_id = x /\ r.twitter_handle # h

\* C4 as stated: with no user of handle h, update_social_login(h, a1) inserts
\* one row and returns (False, id); a following update_social_login(h, a2)
\* returns (True, id) and overwrites the three credentials of that row only.
C4_AsStated ==
    [][ /\ (IsSocial(call') /\ ~HandleStored(users, call'.social_uname))
           => FirstLogin
        /\ (IsSocial(call) /\ ret.exc = "none" /\ ~ret.flag /\ IsSocial(call')
            /\ call'.social_uname = call.social_uname)
           => SecondLogin
      ]_vars

\* C4 amended: the same, provided no row with another handle holds the
\* twitter_user_id of a1 (first call) or of a2 (second call).
C4_SocialLoginInsertThenUpdate ==
    [][ /\ (IsSocial(call') /\ ~HandleStored(users, call'.social_uname)
            /\ ~UserIdTaken(users, call'.social_uname, call'.auth_info.userid))
           => FirstLogin
        /\ (IsSocial(call) /\ ret.exc = "none" /\ ~ret.flag /\ IsSocial(call')
            /\ call'.social_uname = call.social_uname
            /\ ~UserIdTaken(users, call'.social_uname, call'.auth_info.userid))
           => SecondLogin
      ]_vars

\* C4 witness: the second login returned (True, id) for a row that keeps the
\* name and photo of the first login and carries the credentials of the second.
C4_Witness ==
    /\ IsSocial(call)
    /\ ret.exc = "none"
    /\ ret.flag
    /\ call.auth_info = AuthInfo("2", "x2")
    /\ \E r \in users :
          /\ r.id = ret.id
          /\ r = [SocialRow(r.id, call.social_uname, AuthInfo("1", "x1"))
                    EXCEPT !["twitter_auth_token"] = "tok2",
                           !["twitter_auth_secret"] = "sec2",
                           !["twitter_user_id"] = "x2"]

\* the call would store value v in unique column c although another row holds it
WouldCollide(t, self, c, v) ==
    v # None /\ \E r \in t : r \notin self /\ r[c] = v

\* the call about to return would break the uniqueness of a column
WouldBreakUnique ==
    \/ /\ IsAdd(call')
       /\ \E c \in UsersUnique \cap DOMAIN call'.kwargs :
             WouldCollide(users, {}, c, call'.kwargs[c])
    \/ /\ IsUpdate(call')
       /\ call'.id \in Ids(users)
       /\ \E c \in UsersUnique \cap DOMAIN call'.kwargs :
             WouldCollide(users, {r \in users : r.id = call'.id}, c, call'.kwargs[c])
    \/ /\ IsSocial(call')
       /\ UserIdTaken(users, call'.social_uname, call'.auth_info.userid)

\* C5: after every call no two Users rows share a non-null twitter_handle or
\* a non-null twitter_user_id; a call that would break this fails and leaves
\* the table as it was.
C5_UniqueHandleAndUserId ==
    [][ /\ \A r1 \in users', r2 \in users' :
              r1 # r2 =>
                 /\ (r1.twitter_handle # None => r1.twitter_handle # r2.twitter_handle)
                 /\ (r1.twitter_user_id # None => r1.twitter_user_id # r2.twitter_user_id)
        /\ WouldBreakUnique => (ret'.exc # "none" /\ users' = users)
      ]_vars

\* C5 witness: an update that would have given a second row the handle of the
\* first was refused with IntegrityError.
C5_Witness ==
    /\ IsUpdate(call)
    /\ ret.exc = "IntegrityError"
    /\ "twitter_handle" \in DOMAIN call.kwargs
    /\ \E r1 \in users, r2 \in users :
          /\ r1.id = call.id
          /\ r2.id # call.id
          /\ r2.twitter_handle = call.kwargs.twitter_handle

\* C6: get_by_id with an id whose binding raises a statement error wrapping a
\* value error raises that value error; with any other statement error, that
\* same statement error reaches the caller.
C6_GetByIdErrors ==
    IsGet(call) =>
        /\ (call.id = BadUuidString => ret.exc = "ValueError")
        /\ (call.id = BadUuidObject => ret.exc = "StatementError(AttributeError)")

\* C9: update_social_login(h, auth_info) always returns a pair whose id is the
\* id of a stored row with twitter_handle h.
C9_SocialLoginReturnsStoredUser ==
    IsSocial(call) =>
        /\ ret.exc = "none"
        /\ \E r \in users : r.id = ret.id /\ r.twitter_handle = call.social_uname


\* C11 as stated: delete_by_id(id) and update_by_id(id, **fields) called with
\* an id that matches no stored row return None, raise no error, and leave
\* every row of every table unchanged.
C11_AsStated ==
    [][ ((IsDelete(call') \/ IsUpdate(call'))
         /\ call'.id \notin Ids(users))
        => /\ ret'.exc = "none"
           /\ ret'.thing = {}
           /\ users' = users
           /\ assignments' = assignments
           /\ playlists' = playlists
           /\ recordings' = recordings
      ]_vars

\* C11 amended: delete_by_id(id) and update_by_id(id, **fields) called with an
\* id that matches no stored row leave every row of every table unchanged;
\* they return None and raise no error when the id can be bound as a UUID, and
\* raise otherwise: ValueError for a string that is no UUID, NameError for a
\* value that is no string.
C11_MissingIdReturnsNone ==
    [][ ((IsDelete(call') \/ IsUpdate(call'))
         /\ call'.id \notin Ids(users))
        => /\ ret'.thing = {}
           /\ ret'.exc = (IF call'.id = BadUuidString THEN "ValueError"
                          ELSE IF call'.id = BadUuidObject THEN "NameError"
                               ELSE "none")
           /\ users' = users
           /\ assignments' = assignments
           /\ playlists' = playlists
           /\ recordings' = recordings
      ]_vars

\* C11 witness: update_by_id with fields that would change a row was called
\* with an id no row has while rows are stored; it returned None and no row
\* took the fields.
C11_Witness ==
    /\ IsUpdate(call)
    /\ call.id \in IdInputs
    /\ call.id \notin Ids(users)
    /\ call.kwargs = [display_name |-> None]
    /\ ret.exc = "none"
    /\ ret.thing = {}
    /\ users # {}
    /\ \A r \in users : r.display_name # None

\* the same case for delete_by_id: None returned while rows are stored
C11_WitnessDelete ==
    /\ IsDelete(call)
    /\ call.id \in IdInputs
    /\ call.id \notin Ids(users)
    /\ ret.exc = "none"
    /\ ret.thing = {}
    /\ Cardinality(users) = MaxRows

----------------------------------------------------------------------------
(* The sequential client on playlist_assignments *)

PlaylistIds == {"p1", "p2"}
RecordingIds == {"r1", "r2"}

\* keyword arguments of PlaylistAssignments.add
AssignmentInputs ==
    {Merge([playlist_id |-> p, recording_id |-> r], i) :
        p \in PlaylistIds, r \in RecordingIds, i \in Opt("id", GivenIds)}
    \cup {[playlist_id |-> "p1"]}

\* keyword arguments of PlaylistAssignments.update_by_id
AssignmentUpdateInputs ==
    {[recording_id |-> "r2"], [playlist_id |-> "p2"], [recording_id |-> None]}

\* keyword arguments of Playlists.add and of Recordings.add
PlaylistInputs ==
    {[id |-> "p1", title |-> "t1", description |-> "d1", author_id |-> "a1"]}
RecordingInputs == {[id |-> "r1", title |-> "t1", url |-> "u1"]}

\* keyword arguments of Playlists.update_by_id and of Recordings.update_by_id
PlaylistUpdateInputs == {[title |-> "t2"], [recordings |-> "x"]}
RecordingUpdateInputs ==
    {[url |-> "u2"], [playlists |-> "x", url |-> "u2"],
     [recordings |-> "x", url |-> "u2"]}

\* ids of people and organizations, as arguments of the filtered lookups
OwnerIds == {"a1", None, BadUuidString}

PaCall(cls, op, id, kwargs, pid, rid) ==
    [cls |-> cls, op |-> op, id |-> id, kwargs |-> kwargs, pid |-> pid, rid |-> rid]

\* a call of PlaylistAssignments (or one that writes its table only) ends
DonePa(cls, op, id, kwargs, pid, rid, r) ==
    /\ Cardinality(r.table) <= MaxRows
    /\ r.uuid <= MaxUuid
    /\ assignments' = r.table
    /\ uuidNext' = r.uuid
    /\ call' = PaCall(cls, op, id, kwargs, pid, rid)
    /\ ret' = r.ret
    /\ UNCHANGED <<users, playlists, recordings, pc, req, loc, out, base>>

AddAssignment ==
    \E kwargs \in AssignmentInputs :
        \E raised \in ConstructorRaises(kwargs, AssignmentsAttrs) :
            DonePa("PlaylistAssignments", "add", None, kwargs, None, None,
                   add(assignments, uuidNext, kwargs, raised, AssignmentsColumns,
                       TimeStampColumns, AssignmentsNotNull, AssignmentsUnique))

GetAllAssignments ==
    DonePa("PlaylistAssignments", "get_all", None, EmptyKwargs, None, None,
           [table |-> assignments, uuid |-> uuidNext, ret |-> get_all(assignments)])

DeleteAssignmentById ==
    \E id \in IdInputs :
        DonePa("PlaylistAssignments", "delete_by_id", id, EmptyKwargs, None, None,
               delete_by_id(assignments, uuidNext, id))

UpdateAssignmentById ==
    \E id \in IdInputs, kwargs \in AssignmentUpdateInputs :
        DonePa("PlaylistAssignments", "update_by_id", id, kwargs, None, None,
               update_by_id(assignments, uuidNext, id, kwargs, AssignmentsDict,
                            AssignmentsNotNull, AssignmentsUnique))

DeleteByPlaylistIdAndRecordingId ==
    \E pid \in PlaylistIds, rid \in RecordingIds :
        LET r == delete_by_playlist_id_and_recording_id(assignments, pid, rid)
        IN  DonePa("PlaylistAssignments", "delete_by_playlist_id_and_recording_id",
                   None, EmptyKwargs, pid, rid,
                   [table |-> r.table, uuid |-> uuidNext, ret |-> r.ret])

RemoveRecordingById ==
    \E pid \in PlaylistIds, rid \in RecordingIds :
        \E assignment \in First(Assigned(assignments, pid, rid)) :
            LET r == remove_recording_ny_id(assignments, assignment)
            IN  DonePa("Playlists", "remove_recording_ny_id",
                       None, EmptyKwargs, pid, rid,
                       [table |-> r.table, uuid |-> uuidNext, ret |-> r.ret])

\* a call on Playlists or Recordings ends: p and rc are their tables after it
DoneParent(cls, op, id, kwargs, p, rc, a, n, r) ==
    /\ playlists' = p
    /\ recordings' = rc
    /\ assignments' = a
    /\ uuidNext' = n
    /\ call' = PaCall(cls, op, id, kwargs, None, None)
    /\ ret' = r
    /\ UNCHANGED <<users, pc, req, loc, out, base>>

AddPlaylist ==
    \E kwargs \in PlaylistInputs :
      \E raised \in ConstructorRaises(kwargs, PlaylistsAttrs) :
        LET r == add(playlists, uuidNext, kwargs, raised, PlaylistsColumns,
                     TimeStampColumns, PlaylistsNotNull, {})
        IN  /\ Cardinality(r.table) <= MaxRows
            /\ r.uuid <= MaxUuid
            /\ playlists' = r.table
            /\ uuidNext' = r.uuid
            /\ call' = PaCall("Playlists", "add", None, kwargs, None, None)
            /\ ret' = r.ret
            /\ UNCHANGED <<users, assignments, recordings, pc, req, loc, out, base>>

AddRecording ==
    \E kwargs \in RecordingInputs :
      \E raised \in ConstructorRaises(kwargs, RecordingsAttrs) :
        LET r == add(recordings, uuidNext, kwargs, raised, RecordingsColumns,
                     TimeStampColumns, RecordingsNotNull, {})
        IN  /\ Cardinality(r.table) <= MaxRows
            /\ r.uuid <= MaxUuid
            /\ recordings' = r.table
            /\ uuidNext' = r.uuid
            /\ call' = PaCall("Recordings", "add", None, kwargs, None, None)
            /\ ret' = r.ret
            /\ UNCHANGED <<users, assignments, playlists, pc, req, loc, out, base>>

DeletePlaylistById ==
    \E id \in PlaylistIds, sane \in SaneMultiRowcount :
        LET r == delete_by_id_secondary(playlists, assignments, uuidNext, id,
                                        "playlist_id", "recording_id", recordings,
                                        sane)
        IN  /\ playlists' = r.table
            /\ assignments' = r.assignments
            /\ call' = PaCall("Playlists", "delete_by_id", id, EmptyKwargs, None, None)
            /\ ret' = r.ret
            /\ UNCHANGED <<users, recordings, uuidNext, pc, req, loc, out, base>>

DeleteRecordingById ==
    \E id \in RecordingIds, sane \in SaneMultiRowcount :
        LET r == delete_by_id_secondary(recordings, assignments, uuidNext, id,
                                        "recording_id", "playlist_id", playlists,
                                        sane)
        IN  /\ recordings' = r.table
            /\ assignments' = r.assignments
            /\ call' = PaCall("Recordings", "delete_by_id", id, EmptyKwargs, None, None)
            /\ ret' = r.ret
            /\ UNCHANGED <<users, playlists, uuidNext, pc, req, loc, out, base>>

UpdatePlaylistById ==
    \E id \in PlaylistIds, kwargs \in PlaylistUpdateInputs :
        LET r == update_by_id(playlists, uuidNext, id, kwargs, PlaylistsDict,
                              PlaylistsNotNull, {})
        IN  DoneParent("Playlists", "update_by_id", id, kwargs,
                       r.table, recordings, assignments, uuidNext, r.ret)

\* keys = set(cls.__dict__) is read before the query of get_by_id: in a process
\* that has configured no mapper yet it lacks the backref
UpdateRecordingById ==
    \E id \in RecordingIds, kwargs \in RecordingUpdateInputs,
       configured \in MappersConfigured :
        LET r == update_by_id(recordings, uuidNext, id, kwargs,
                              RecordingsDict(configured), RecordingsNotNull, {})
        IN  DoneParent("Recordings", "update_by_id", id, kwargs,
                       playlists, r.table, assignments, uuidNext, r.ret)

GetPlaylistById ==
    \E id \in PlaylistIds :
        DoneParent("Playlists", "get_by_id", id, EmptyKwargs,
                   playlists, recordings, assignments, uuidNext,
                   get_by_id(playlists, id))

GetRecordingById ==
    \E id \in RecordingIds :
        DoneParent("Recordings", "get_by_id", id, EmptyKwargs,
                   playlists, recordings, assignments, uuidNext,
                   get_by_id(recordings, id))

GetAllPlaylists ==
    DoneParent("Playlists", "get_all", None, EmptyKwargs,
               playlists, recordings, assignments, uuidNext, get_all(playlists))

GetAllRecordings ==
    DoneParent("Recordings", "get_all", None, EmptyKwargs,
               playlists, recordings, assignments, uuidNext, get_all(recordings))

GetPlaylistsByOwnerId ==
    \E id \in OwnerIds :
        DoneParent("Playlists", "get_by_owner_id", id, EmptyKwargs,
                   playlists, recordings, assignments, uuidNext,
                   get_by_owner_id(playlists, id))

GetRecordingsByPlaylistId ==
    \E id \in PlaylistIds :
        DoneParent("Playlists", "get_recordings_by_playlist_id", id, EmptyKwargs,
                   playlists, recordings, assignments, uuidNext,
                   get_recordings_by_playlist_id(recordings, assignments, id))

GetRecordingsByOrganizationId ==
    \E id \in OwnerIds :
        DoneParent("Recordings", "get_by_organization_id", id, EmptyKwargs,
                   playlists, recordings, assignments, uuidNext,
                   get_by_organization_id(recordings, id))

NextPlaylist ==
    \/ AddAssignment
    \/ GetAllAssignments
    \/ DeleteAssignmentById
    \/ UpdateAssignmentById
    \/ DeleteByPlaylistIdAndRecordingId
    \/ RemoveRecordingById
    \/ AddPlaylist
    \/ AddRecording
    \/ UpdatePlaylistById
    \/ UpdateRecordingById
    \/ DeletePlaylistById
    \/ DeleteRecordingById
    \/ GetPlaylistById
    \/ GetRecordingById
    \/ GetAllPlaylists
    \/ GetAllRecordings
    \/ GetPlaylistsByOwnerId
    \/ GetRecordingsByPlaylistId
    \/ GetRecordingsByOrganizationId

SpecPlaylist == Init /\ [][NextPlaylist]_vars

\* the table of class cls
TableOf(cls) ==
    IF cls = "Playlists" THEN playlists
    ELSE IF cls = "Recordings" THEN recordings ELSE assignments

\* C3 on every record type: delete_by_id(id) on an existing row of
\* PlaylistAssignments, Playlists or Recordings returns the deleted record and
\* leaves the table of the class without that row and otherwise as it was.
C3_DeleteByIdOnEveryType ==
    [][ (call'.op = "delete_by_id" /\ call'.id \in Ids(TableOf(call'.cls)))
        => LET old == CHOOSE r \in TableOf(call'.cls) : r.id = call'.id
           IN  /\ ret'.exc = "none"
               /\ ret'.thing = {old}
               /\ (call'.cls = "Playlists") => playlists' = playlists \ {old}
               /\ (call'.cls = "Recordings") => recordings' = recordings \ {old}
               /\ (call'.cls = "PlaylistAssignments")
                      => assignments' = assignments \ {old}
      ]_vars

\* C11 on PlaylistAssignments: delete_by_id and update_by_id with an id no
\* assignment has return None and leave the tables unchanged
C11_MissingAssignmentId ==
    [][ (call'.cls = "PlaylistAssignments"
         /\ call'.op \in {"delete_by_id", "update_by_id"}
         /\ call'.id \notin Ids(assignments))
        => /\ ret'.exc = "none"
           /\ ret'.thing = {}
           /\ UNCHANGED <<users, assignments, playlists, recordings>>
      ]_vars

\* update_by_id on Playlists and Recordings, on an existing row: the keyword
\* recordings on Playlists raises TypeError and changes nothing; the keyword
\* playlists on Recordings does the same or is skipped; in every other case
\* the named columns are overwritten, every other keyword is skipped and
\* every other row is unchanged
UpdateByIdOnPlaylistsAndRecordings ==
    [][ (call'.op = "update_by_id" /\ call'.cls \in {"Playlists", "Recordings"}
         /\ call'.id \in Ids(TableOf(call'.cls)))
        => LET t == TableOf(call'.cls)
               old == CHOOSE r \in t : r.id = call'.id
               new == [c \in DOMAIN old |->
                          IF c \in DOMAIN call'.kwargs
                          THEN call'.kwargs[c] ELSE old[c]]
               raised == /\ ret'.exc = "TypeError"
                         /\ UNCHANGED <<playlists, recordings, assignments>>
               written == /\ ret'.exc = "none"
                          /\ ret'.thing = {new}
                          /\ assignments' = assignments
                          /\ IF call'.cls = "Playlists"
                             THEN /\ playlists' = (playlists \ {old}) \cup {new}
                                  /\ recordings' = recordings
                             ELSE /\ recordings' = (recordings \ {old}) \cup {new}
                                  /\ playlists' = playlists
           IN  IF call'.cls = "Playlists" /\ "recordings" \in DOMAIN call'.kwargs
               THEN raised
               ELSE IF call'.cls = "Recordings"
                       /\ "playlists" \in DOMAIN call'.kwargs
                    THEN raised \/ written
                    ELSE written
      ]_vars

\* C10: delete_by_playlist_id_and_recording_id(pid, rid) returns True exactly
\* when such an assignment was stored, and then one such assignment is gone
\* and every other row is unchanged; otherwise it returns False and changes
\* nothing.
C10_DeleteByPlaylistAndRecording ==
    [][ call'.op = "delete_by_playlist_id_and_recording_id"
        => LET found == Assigned(assignments, call'.pid, call'.rid)
           IN  /\ ret'.exc = "none"
               /\ ret'.success = (found # {})
               /\ IF found = {} THEN assignments' = assignments
                  ELSE \E r \in found : assignments' = assignments \ {r}
      ]_vars

----------------------------------------------------------------------------
(* Two clients, each with its own session, making one call each on users.  *)
(* A step is one database transaction.  get_by_id enters                   *)
(* `with transaction.manager` itself: entered inside the block of          *)
(* delete_by_id or update_by_id it begins a transaction of its own and     *)
(* commits it on leaving, so the lookup is one transaction and the flush   *)
(* of DBSession.delete / DBSession.add at transaction.commit() the next.   *)
(* In update_social_login the Users.add call is one transaction and the    *)
(* block of the except branch another.                                     *)

\* the tables the run starts from: empty, after one social login, after two
ConcStarts ==
    LET s0 == [table |-> {}, uuid |-> 0]
        r1 == update_social_login(s0.table, s0.uuid, "h1", AuthInfo("1", "x1"))
        s1 == [table |-> r1.table, uuid |-> r1.uuid]
        r2 == update_social_login(s1.table, s1.uuid, "h2", AuthInfo("1", "x2"))
        s2 == [table |-> r2.table, uuid |-> r2.uuid]
    IN  {s0, s1, s2}

\* keyword arguments of the concurrent update_by_id calls
ConcUpdateInputs == {[email |-> "e2"], [twitter_handle |-> "h2"]}

InitConc ==
    /\ \E s \in ConcStarts :
          /\ users = s.table
          /\ uuidNext = s.uuid
          /\ base = s
    /\ assignments = {}
    /\ playlists = {}
    /\ recordings = {}
    /\ call = NoCall
    /\ ret = [exc |-> "none"]
    /\ pc = [c \in Clients |-> "idle"]
    /\ req = [c \in Clients |-> NoCall]
    /\ loc = [c \in Clients |-> NoLoc]
    /\ out = [c \in Clients |-> [exc |-> "none"]]

\* client c returns (or raises) r
Finish(c, r) ==
    /\ pc' = [pc EXCEPT ![c] = "done"]
    /\ out' = [out EXCEPT ![c] = r]

\* the lookup of delete_by_id or update_by_id: thing = cls.get_by_id(id)
Lookup(c, op, id, kwargs, next) ==
    LET got == get_by_id(users, id)
    IN  /\ pc[c] = "idle"
        /\ req' = [req EXCEPT ![c] = Call(op, id, kwargs, None, NoAuth)]
        /\ IF got.exc # "none" \/ got.thing = {}
           THEN /\ Finish(c, got)
                /\ loc' = loc
           ELSE /\ pc' = [pc EXCEPT ![c] = next]
                /\ loc' = [loc EXCEPT ![c] =
                              [thing |-> got.thing, seen |-> users, raced |-> FALSE]]
                /\ out' = out
        /\ UNCHANGED <<users, assignments, playlists, recordings, uuidNext, call, ret, base>>

DeleteLookup(c) ==
    \E id \in IdInputs :
        Lookup(c, "delete_by_id", id, EmptyKwargs, "delete")

\* DBSession.delete(thing); transaction.commit()
DeleteWrite(c) ==
    /\ pc[c] = "delete"
    /\ users' = DeleteTxn(users, TheThing(loc[c].thing))
    /\ Finish(c, [exc |-> "none", thing |-> loc[c].thing])
    /\ loc' = [loc EXCEPT ![c].raced = (users # loc[c].seen)]
    /\ UNCHANGED <<assignments, playlists, recordings, uuidNext, call, ret, req, base>>

UpdateLookup(c) ==
    \E id \in IdInputs, kwargs \in ConcUpdateInputs :
        Lookup(c, "update_by_id", id, kwargs, "update")

\* the setattr loop; DBSession.add(thing); transaction.commit()
UpdateWrite(c) ==
    LET old == TheThing(loc[c].thing)
        thing == SetAttrs(old, req[c].kwargs, UsersDict)
        upd == UpdateTxn(users, old, thing, UsersNotNull, UsersUnique)
    IN  /\ pc[c] = "update"
        /\ users' = upd.table
        /\ Finish(c, IF upd.exc = "none" THEN [exc |-> "none", thing |-> {thing}]
                     ELSE [exc |-> upd.exc, thing |-> {}])
        /\ loc' = [loc EXCEPT ![c].raced = (users # loc[c].seen)]
        /\ UNCHANGED <<assignments, playlists, recordings, uuidNext, call, ret, req, base>>

\* the try block of update_social_login: user = Users.add(...)
SocialInsert(c) ==
    \E social_uname \in Handles, auth_info \in AuthInfos :
        LET kwargs == SocialKwargs(social_uname, auth_info)
            a == add(users, uuidNext, kwargs,
                     CHOOSE raised \in ConstructorRaises(kwargs, UsersAttrs) : TRUE,
                     UsersColumns, UsersServerDefault, UsersNotNull, UsersUnique)
        IN  /\ pc[c] = "idle"
            /\ req' = [req EXCEPT ![c] =
                          Call("update_social_login", None, EmptyKwargs,
                               social_uname, auth_info)]
            /\ users' = a.table
            /\ uuidNext' = a.uuid
            /\ IF a.ret.exc = "none"
               THEN /\ Finish(c, [exc |-> "none", flag |-> FALSE,
                                  id |-> TheThing(a.ret.thing).id])
                    /\ loc' = loc
               ELSE /\ pc' = [pc EXCEPT ![c] = "fallback"]
                    /\ loc' = [loc EXCEPT ![c] =
                                  [thing |-> {}, seen |-> users, raced |-> FALSE]]
                    /\ out' = out
            /\ UNCHANGED <<assignments, playlists, recordings, call, ret, base>>

\* mutant of SocialFallbackStep: the bulk UPDATE is not committed, only the
\* refetch takes place
SocialFallbackStepNoUpdate(c) ==
    LET found == {r \in users : r.twitter_handle = req[c].social_uname}
    IN  /\ pc[c] = "fallback"
        /\ users' = users
        /\ Finish(c, IF found = {}
                     THEN [exc |-> "AttributeError", flag |-> TRUE, id |-> None]
                     ELSE [exc |-> "none", flag |-> TRUE, id |-> TheThing(found).id])
        /\ loc' = [loc EXCEPT ![c].raced = (users # loc[c].seen)]
        /\ UNCHANGED <<assignments, playlists, recordings, uuidNext, call, ret, req, base>>

\* the except branch of update_social_login
SocialFallbackStep(c) ==
    LET f == SocialFallback(users, req[c].social_uname, req[c].auth_info)
    IN  /\ pc[c] = "fallback"
        /\ users' = f.table
        /\ Finish(c, f.ret)
        /\ loc' = [loc EXCEPT ![c].raced = (users # loc[c].seen)]
        /\ UNCHANGED <<assignments, playlists, recordings, uuidNext, call, ret, req, base>>

NextConc ==
    \E c \in Clients :
        \/ DeleteLookup(c)
        \/ DeleteWrite(c)
        \/ UpdateLookup(c)
        \/ UpdateWrite(c)
        \/ SocialInsert(c)
        \/ SocialFallbackStep(c)

SpecConc == InitConc /\ [][NextConc]_vars

----------------------------------------------------------------------------
(* Properties of the concurrent clients *)

\* the call rq made alone on table t
Run(rq, t, n) ==
    IF IsDelete(rq) THEN delete_by_id(t, n, rq.id)
    ELSE IF IsUpdate(rq)
         THEN update_by_id(t, n, rq.id, rq.kwargs, UsersDict, UsersNotNull, UsersUnique)
         ELSE update_social_login(t, n, rq.social_uname, rq.auth_info)

\* the final table and the two outcomes when `first` runs to its end before
\* `second` starts
Serial(first, second) ==
    LET r1 == Run(req[first], base.table, base.uuid)
        r2 == Run(req[second], r1.table, r1.uuid)
    IN  [table |-> r2.table, first |-> r1.ret, second |-> r2.ret]

AllDone == \A c \in Clients : pc[c] = "done"

\* the run ended as the serial run of `first` then `second` ends
EndsAs(first, second) ==
    LET s == Serial(first, second)
    IN  users = s.table /\ out[first] = s.first /\ out[second] = s.second

Serializable == EndsAs("c1", "c2") \/ EndsAs("c2", "c1")

\* C7: in delete_by_id and update_by_id the lookup and the write belong to one
\* transaction: when the write runs, the table is as the lookup saw it.
C7_LookupAndWriteInOneTransaction ==
    \A c \in Clients : pc[c] \in {"delete", "update"} => users = loc[c].seen

\* C8: an outcome that no serial order of the two calls produces arises only
\* when the second transaction of a call ran on a table another writer had
\* changed since the call's first transaction.
C8_NonSerialOnlyByRace ==
    (AllDone /\ ~Serializable) => \E c \in Clients : loc[c].raced

\* C8 witness: a login for the stored handle h1 failed its insert, the other
\* client's delete_by_id of that user was committed before the fallback ran,
\* and the login raised AttributeError with the row gone: the outcome of
\* neither serial order.
C8_Witness ==
    /\ AllDone
    /\ ~Serializable
    /\ \E c \in Clients, d \in Clients :
          /\ IsSocial(req[c])
          /\ req[c].social_uname = "h1"
          /\ HandleStored(base.table, "h1")
          /\ ~UserIdTaken(base.table, "h1", req[c].auth_info.userid)
          /\ loc[c].raced
          /\ out[c].exc = "AttributeError"
          /\ IsDelete(req[d])
          /\ out[d].exc = "none"
          /\ out[d].thing # {}

\* C11 among concurrent clients: a delete_by_id or update_by_id whose lookup
\* finds no row ends at the lookup with None, and that step writes nothing.
C11_MissingIdWritesNothing ==
    [][ \A c \in Clients :
          (pc[c] = "idle" /\ pc'[c] # "idle"
           /\ (IsDelete(req'[c]) \/ IsUpdate(req'[c]))
           /\ req'[c].id \notin Ids(users))
          => /\ pc'[c] = "done"
             /\ out'[c].exc = "none"
             /\ out'[c].thing = {}
             /\ users' = users
             /\ assignments' = assignments
             /\ playlists' = playlists
             /\ recordings' = recordings
      ]_vars

====
